---- MODULE Spec2Model ----
(***************************************************************************)
(* A model of src/models/dense_net_3d.py (class DenseNet3D).               *)
(*                                                                         *)
(* Two parts share the module.  SpecBuild follows the constructor          *)
(* (__init__, _define_inputs, _build_graph, _initialize_session,           *)
(* _count_trainable_params) and keeps, for every tensor the graph builds,  *)
(* its static shape.  SpecTrain and SpecMetrics follow train_all_epochs,   *)
(* train_one_epoch, test, save_model and load_model of a constructed       *)
(* network.                                                                *)
(*                                                                         *)
(* A tensor is [dims |-> <<sequence, height, width>>, chans |-> s]: the    *)
(* batch extent is unknown (None) in the graph and is left out; s has one  *)
(* entry per channel, the entry naming the convolution that produced the   *)
(* channel, so that the order of a concatenation is visible.               *)
(***************************************************************************)
EXTENDS Integers, Sequences, FiniteSets, TLC

VARIABLES
  \* ---- construction (DenseNet3D.__init__ and what it calls)
  hp,                \* the constructor's arguments
  provider,          \* data_provider: data_shape, n_classes, num_examples
  layers_per_block,  \* self.layers_per_block
  ctor,              \* how far the constructor has come
  output,            \* _build_graph's local `output`
  block,             \* _build_graph's loop variable
  layer,             \* add_block's loop variable
  built,             \* the layers built so far, in order
  logits,            \* shape of the logits, once built
  \* ---- training (train_all_epochs and what it calls)
  tp,                \* train_params
  pc,                \* where train_all_epochs stands
  params,            \* the session's variables: the gradient steps applied to them
  files,             \* the checkpoint files under save_path
  checkpoint_state,  \* the path the checkpoint-state record names, <<>> if none
  start_epoch,       \* train_all_epochs' start_epoch
  epoch,             \* train_all_epochs' loop variable
  learning_rate,     \* train_all_epochs' learning_rate
  i,                 \* the batch loop's variable in train_one_epoch and test
  total_loss,        \* the pass's total_loss list
  total_accuracy,    \* the pass's total_accuracy list
  results,           \* what train_one_epoch and test last returned
  batches_step,      \* self.batches_step
  \* ---- what the environment has seen (history, read by no action)
  served,            \* the batches next_batch handed out in the current pass
  trained,           \* the epochs train_one_epoch was called for, this process
  validated,         \* the epochs test was called for, this process
  resumed,           \* whether a process of this training was ended and replaced
  last_save          \* the latest save_model: its global_step and what it saved

buildVars == <<hp, provider, layers_per_block, ctor, output, block, layer, built, logits>>

trainVars == <<tp, pc, params, files, checkpoint_state, start_epoch, epoch,
               learning_rate, i, total_loss, total_accuracy, results, batches_step,
               served, trained, validated, resumed, last_save>>

vars == <<buildVars, trainVars>>

\* ------------------------------------------------------------------ bounds
MaxGrowth == 2
MaxDepth  == 8
MaxBlocks == 3
MaxEpochs == 3
MaxExamples == 5
MaxBatch == 3

\* ------------------------------------------------------------- arithmetic
\* Python's // on integers: the quotient rounded toward minus infinity
\* (b # 0; b = 0 raises ZeroDivisionError and is handled by the caller).
FloorDiv(a, b) ==
  LET aa == IF a < 0 THEN -a ELSE a
      bb == IF b < 0 THEN -b ELSE b
      q  == aa \div bb
  IN  IF (a < 0) = (b < 0) THEN q
      ELSE IF q * bb = aa THEN -q ELSE -(q + 1)

\* The extent TensorFlow gives an axis of extent n under padding and stride.
PaddedExtent(n, k, stride, padding) ==
  IF padding = "SAME" THEN (n + stride - 1) \div stride
  ELSE (n - k + stride) \div stride

NoneTensor == [dims |-> <<0, 0, 0>>, chans |-> <<>>]

Channels(t) == Len(t.chans)

\* the latest convolution that produced a channel of s (0: the input's own)
MaxTag(s) ==
  IF s = <<>> THEN 0
  ELSE s[CHOOSE k \in 1..Len(s) : \A j \in 1..Len(s) : s[j] <= s[k]]

\* ------------------------------------------------------------------ layers
\* conv3d: a kernel [k,k,k,in_features,out_features]; the output has
\* out_features channels, all produced here.
Conv3d(_input, out_features, kernel_size, strides, padding) ==
  LET tag == MaxTag(_input.chans) + 1
  IN  [dims  |-> <<PaddedExtent(_input.dims[1], kernel_size, strides[1], padding),
                   PaddedExtent(_input.dims[2], kernel_size, strides[2], padding),
                   PaddedExtent(_input.dims[3], kernel_size, strides[3], padding)>>,
       chans |-> [c \in 1..out_features |-> tag]]

\* pool: 0 stands for an omitted (None) argument; Python's `not x` holds of both.
Pool(_input, k, d, width_k, type, k_stride, d_stride, k_stride_width) ==
  LET wk  == IF width_k = 0 THEN k ELSE width_k
      ks  == IF k_stride = 0 THEN k ELSE k_stride
      ksw == IF k_stride_width = 0 THEN ks ELSE k_stride_width
      ds  == IF d_stride = 0 THEN d ELSE d_stride
  IN  IF type \in {"max", "avg"}
      THEN [dims  |-> <<PaddedExtent(_input.dims[1], d, ds, "SAME"),
                        PaddedExtent(_input.dims[2], k, ks, "SAME"),
                        PaddedExtent(_input.dims[3], wk, ksw, "SAME")>>,
            chans |-> _input.chans]
      ELSE NoneTensor

\* batch_norm, ReLU and dropout keep the shape and the channels of their input.
CompositeFunction(_input, out_features, kernel_size) ==
  Conv3d(_input, out_features, kernel_size, <<1, 1, 1>>, "SAME")

Bottleneck(_input, out_features) ==
  Conv3d(_input, out_features * 4, 1, <<1, 1, 1>>, "VALID")

Concat(a, b) == [dims |-> a.dims, chans |-> a.chans \o b.chans]

CompOut(_input, growth_rate, bc_mode) ==
  IF ~bc_mode THEN CompositeFunction(_input, growth_rate, 3)
  ELSE CompositeFunction(Bottleneck(_input, growth_rate), growth_rate, 3)

\* a faulty variant: in bc_mode the bottleneck's output is concatenated
InternalLayerMutBottleneckOut(_input, growth_rate, bc_mode) ==
  IF ~bc_mode THEN Concat(_input, CompOut(_input, growth_rate, bc_mode))
  ELSE Concat(_input, Bottleneck(_input, growth_rate))

InternalLayer(_input, growth_rate, bc_mode) ==
  Concat(_input, CompOut(_input, growth_rate, bc_mode))

\* a faulty variant: the product is rounded up
OutFeaturesMutCeil(channels, reduction) ==
  (channels * reduction.num + reduction.den - 1) \div reduction.den

\* out_features = int(channels * reduction), reduction = num/den exactly
OutFeatures(channels, reduction) ==
  (channels * reduction.num) \div reduction.den

TransitionLayer(_input, pool_depth, reduction) ==
  Pool(CompositeFunction(_input, OutFeatures(Channels(_input), reduction), 1),
       2, pool_depth, 0, "avg", 0, 0, 0)

ClassesPool(_input) ==
  Pool(_input, _input.dims[2], _input.dims[1], _input.dims[3], "avg",
       0, 0, _input.dims[3])

\* reshape to [-1, features_total], then W [features_total, n_classes] and bias:
\* rows counts the rows each example of the batch contributes.
LogitsShape(pooled, n_classes) ==
  [rows |-> pooled.dims[1] * pooled.dims[2] * pooled.dims[3],
   features_total |-> Channels(pooled),
   cols |-> n_classes]

\* ------------------------------------------------------------- constructor
Reductions == {[num |-> 1, den |-> 4], [num |-> 1, den |-> 2],
               [num |-> 3, den |-> 4], [num |-> 1, den |-> 1]}

NoData == [num_examples |-> 0, values |-> {}]

Providers == {[data_shape |-> <<1, 1, 1, 1>>, n_classes |-> 2,
               train |-> NoData, validation |-> NoData],
              [data_shape |-> <<5, 2, 9, 3>>, n_classes |-> 3,
               train |-> NoData, validation |-> NoData],
              [data_shape |-> <<3, 8, 8, 1>>, n_classes |-> 2,
               train |-> NoData, validation |-> NoData]}

\* Before train_all_epochs is called.
TrainingIdle ==
  /\ tp = [n_epochs |-> 0, initial_learning_rate |-> [num |-> 1, den |-> 10],
           batch_size |-> 1, reduce_lr_epoch_1 |-> 1, reduce_lr_epoch_2 |-> 1,
           validation_set |-> FALSE]
  /\ pc = "idle"
  /\ params = <<>>
  /\ files = {}
  /\ checkpoint_state = <<>>
  /\ start_epoch = 0
  /\ epoch = 0
  /\ learning_rate = [num |-> 0, den |-> 1]
  /\ i = 0
  /\ total_loss = <<>>
  /\ total_accuracy = <<>>
  /\ results = [train |-> "none", valid |-> "none"]
  /\ batches_step = 0
  /\ served = [train |-> <<>>, validation |-> <<>>]
  /\ trained = <<>>
  /\ validated = <<>>
  /\ resumed = FALSE
  /\ last_save = [global_step |-> 0 - 1, params |-> <<>>]

\* __init__, lines 55-64
LayersPerBlockOf(h) ==
  LET lpb == FloorDiv(h.depth - (h.total_blocks + 1), h.total_blocks)
  IN  IF h.bc_mode THEN FloorDiv(lpb, 2) ELSE lpb

InitBuild ==
  /\ hp \in [growth_rate : 1..MaxGrowth, depth : 1..MaxDepth,
             total_blocks : (0 - 1)..MaxBlocks, bc_mode : BOOLEAN,
             reduction : Reductions, model_type : {<<"DenseNet">>},
             dataset : {<<"ucf">>}, should_save_logs : {FALSE},
             should_save_model : {FALSE}]
  /\ provider \in Providers
  /\ layers_per_block = 0
  /\ ctor = "new"
  /\ output = NoneTensor
  /\ block = 0
  /\ layer = 0
  /\ built = <<>>
  /\ logits = [rows |-> 0, features_total |-> 0, cols |-> 0]
  /\ TrainingIdle

\* __init__, lines 46-79: the fields; total_blocks = 0 raises ZeroDivisionError.
Construct ==
  /\ ctor = "new"
  /\ IF hp.total_blocks = 0
     THEN /\ ctor' = "error"
          /\ UNCHANGED layers_per_block
     ELSE /\ ctor' = "fields_set"
          /\ layers_per_block' = LayersPerBlockOf(hp)
  /\ UNCHANGED <<hp, provider, output, block, layer, built, logits>>
  /\ UNCHANGED trainVars

DefineInputs ==
  /\ ctor = "fields_set"
  /\ ctor' = "inputs_defined"
  /\ output' = [dims  |-> SubSeq(provider.data_shape, 1, 3),
                chans |-> [c \in 1..provider.data_shape[4] |-> 0]]
  /\ UNCHANGED <<hp, provider, layers_per_block, block, layer, built, logits>>
  /\ UNCHANGED trainVars

Record(op, in, out, mid) ==
  [op |-> op, block |-> block, layer |-> layer, in |-> in, out |-> out, mid |-> mid]

\* _build_graph, lines 404-414
InitialConvolution ==
  /\ ctor = "inputs_defined"
  /\ LET conv == Conv3d(output, hp.growth_rate * 2, 7, <<1, 2, 2>>, "SAME")
         pool == Pool(conv, 3, 3, 0, "avg", 2, 1, 0)
     IN  /\ output' = pool
         /\ built' = built \o <<Record("initial_conv", output, conv, 0),
                                Record("initial_pool", conv, pool, 0)>>
  /\ ctor' = "blocks"
  /\ block' = 0
  /\ layer' = 0
  /\ UNCHANGED <<hp, provider, layers_per_block, logits>>
  /\ UNCHANGED trainVars

\* add_block's loop body, lines 266-268
AddInternalLayer ==
  /\ ctor = "blocks"
  /\ block < hp.total_blocks
  /\ layer < layers_per_block
  /\ output' = InternalLayer(output, hp.growth_rate, hp.bc_mode)
  /\ built' = Append(built,
       Record("internal", output, output',
              IF hp.bc_mode THEN Channels(Bottleneck(output, hp.growth_rate)) ELSE 0))
  /\ layer' = layer + 1
  /\ UNCHANGED <<hp, provider, layers_per_block, ctor, block, logits>>
  /\ UNCHANGED trainVars

\* _build_graph, lines 421-425: the block is not the last one
TransitionAfterBlock ==
  /\ ctor = "blocks"
  /\ block < hp.total_blocks
  /\ layer >= layers_per_block
  /\ block # hp.total_blocks - 1
  /\ output' = TransitionLayer(output, 2, hp.reduction)
  /\ built' = Append(built, Record("transition", output, output', 0))
  /\ block' = block + 1
  /\ layer' = 0
  /\ UNCHANGED <<hp, provider, layers_per_block, ctor, logits>>
  /\ UNCHANGED trainVars

\* _build_graph, line 421: the last block has no transition layer
LastBlockDone ==
  /\ ctor = "blocks"
  /\ block < hp.total_blocks
  /\ layer >= layers_per_block
  /\ block = hp.total_blocks - 1
  /\ block' = block + 1
  /\ layer' = 0
  /\ UNCHANGED <<hp, provider, layers_per_block, ctor, output, built, logits>>
  /\ UNCHANGED trainVars

\* conv3d on an input without channels: the kernel [k,k,k,0,out] has fan-in 0 and
\* the variance-scaling initializer divides by it; whether the build stops there
\* depends on the library, so both outcomes are kept.
ConvRaises ==
  /\ ctor = "blocks"
  /\ block < hp.total_blocks
  /\ Channels(output) = 0
  /\ layer < layers_per_block \/ block # hp.total_blocks - 1
  /\ ctor' = "error"
  /\ UNCHANGED <<hp, provider, layers_per_block, output, block, layer, built, logits>>
  /\ UNCHANGED trainVars

\* _build_graph, lines 427-447
TransitionToClasses ==
  /\ ctor = "blocks"
  /\ block >= hp.total_blocks
  /\ LET pooled == ClassesPool(output)
     IN  /\ output' = pooled
         /\ built' = Append(built, Record("classes_pool", output, pooled, 0))
         /\ logits' = LogitsShape(pooled, provider.n_classes)
  /\ ctor' = "graph_built"
  /\ UNCHANGED <<hp, provider, layers_per_block, block, layer>>
  /\ UNCHANGED trainVars

InitializeSession ==
  /\ ctor = "graph_built"
  /\ ctor' = "session_initialized"
  /\ UNCHANGED <<hp, provider, layers_per_block, output, block, layer, built, logits>>
  /\ UNCHANGED trainVars

CountTrainableParams ==
  /\ ctor = "session_initialized"
  /\ ctor' = "ready"
  /\ UNCHANGED <<hp, provider, layers_per_block, output, block, layer, built, logits>>
  /\ UNCHANGED trainVars

NextBuild ==
  \/ Construct
  \/ DefineInputs
  \/ InitialConvolution
  \/ AddInternalLayer
  \/ TransitionAfterBlock
  \/ LastBlockDone
  \/ ConvRaises
  \/ TransitionToClasses
  \/ InitializeSession
  \/ CountTrainableParams

SpecBuild == InitBuild /\ [][NextBuild]_vars

\* ---------------------------------------------------------------- strings
\* A string is a sequence of tokens; "/" and "-" are tokens of their own, a
\* decimal digit is a token, and any other token holds neither.
DigitChars == <<"0", "1", "2", "3", "4", "5", "6", "7", "8", "9">>

RECURSIVE Digits(_)
Digits(n) == IF n < 10 THEN <<DigitChars[n + 1]>>
             ELSE Digits(n \div 10) \o <<DigitChars[(n % 10) + 1]>>

\* str(n)
Str(n) == IF n < 0 THEN <<"-">> \o Digits(-n) ELSE Digits(n)

IsNumber(s) ==
  /\ s # <<>>
  /\ \A k \in 1..Len(s) : \E d \in 1..10 : DigitChars[d] = s[k]

RECURSIVE IntOf(_)
\* int(s), for s a string of digits
IntOf(s) ==
  LET v == (CHOOSE d \in 1..10 : DigitChars[d] = s[Len(s)]) - 1
  IN  IF Len(s) = 1 THEN v ELSE IntOf(SubSeq(s, 1, Len(s) - 1)) * 10 + v

\* s.split(sep)[-1]
LastField(s, sep) ==
  IF \E k \in 1..Len(s) : s[k] = sep
  THEN LET last == CHOOSE k \in 1..Len(s) :
                     s[k] = sep /\ \A j \in (k + 1)..Len(s) : s[j] # sep
       IN  SubSeq(s, last + 1, Len(s))
  ELSE s

\* ------------------------------------------------------------- checkpoints
ModelIdentifier ==
  hp.model_type \o <<"_growth_rate=">> \o Str(hp.growth_rate) \o <<"_depth=">>
    \o Str(hp.depth) \o <<"_dataset_">> \o hp.dataset \o <<"_total_block=">>
    \o Str(hp.total_blocks)

\* save_path[0] and save_path[1]
SaveDir == <<"saves", "/">> \o ModelIdentifier

ModelPath == SaveDir \o <<"/", "model.chkpt">>

\* a faulty variant: global_step is not passed on to saver.save
CheckpointPathMutNoStep(global_step) == ModelPath

\* the file saver.save writes for global_step

CheckpointPath(global_step) == ModelPath \o <<"-">> \o Str(global_step)

\* a faulty variant: the saved epoch itself is returned
StartEpochOfMutSameEpoch(path) == IntOf(LastField(LastField(path, "/"), "-"))

\* load_model, lines 166-167
StartEpochOf(path) == IntOf(LastField(LastField(path, "/"), "-")) + 1

\* saver.save: the file is written (max_to_keep = 0: none is removed) and the
\* checkpoint-state record names it.
SavedFiles(path) ==
  {f \in files : f.path # path} \cup {[path |-> path, params |-> params]}

\* a faulty variant: the variables are left as initialized
RestoredParamsMutReinitialized(path) == <<>>

\* saver.restore: every variable takes the value the file holds
RestoredParams(path) == (CHOOSE f \in files : f.path = path).params

\* ----------------------------------------------------------- training loop
Rate(num, den) == [num |-> num, den |-> den]

\* Python's rate / k, kept exact
DivRate(r, k) == Rate(r.num, r.den * k)

\* a faulty variant: the rate of the epoch before is divided
ScheduledRateMutCompound(init, e, r1, r2) ==
  LET prev == IF learning_rate.num = 0 THEN init ELSE learning_rate
  IN  IF e >= r1 /\ e < r2 THEN DivRate(prev, 10)
      ELSE IF e >= r2 THEN DivRate(prev, 100)
      ELSE prev

\* train_all_epochs, lines 465-472
ScheduledRate(init, e, r1, r2) ==
  IF e >= r1 /\ e < r2 THEN DivRate(init, 10)
  ELSE IF e >= r2 THEN DivRate(init, 100)
  ELSE init

\* a faulty variant: range(start_epoch, n_epochs)
InRangeMutExclusive(e, n_epochs) == e < n_epochs

\* whether range(start_epoch, n_epochs + 1), having come to e, yields e
InRange(e, n_epochs) == e < n_epochs + 1

\* a faulty variant: the remainder makes one more batch
NumBatchesMutCeil(data, batch_size) ==
  (data.num_examples + batch_size - 1) \div batch_size

\* range(num_examples // batch_size)
NumBatches(data, batch_size) == data.num_examples \div batch_size

RECURSIVE Sum(_)
Sum(s) == IF s = <<>> THEN 0 ELSE Head(s) + Sum(Tail(s))

\* np.mean: the sum over the count, kept exact; of an empty list, nan
Mean(s) == IF s = <<>> THEN "nan" ELSE [sum |-> Sum(s), n |-> Len(s)]

\* one optimizer step (train_step) on the session's variables
Step(e, b, lr) == [epoch |-> e, batch |-> b, lr |-> lr]

\* the fetches of train_one_epoch, line 517
TrainFetches == {"train_step", "cross_entropy", "accuracy"}

TestFetchesMutTrainStep == {"train_step", "cross_entropy", "accuracy"}

\* the fetches of test, line 543
TestFetches == {"cross_entropy", "accuracy"}

\* sess.run(fetches, feed_dict) on the session's variables p: train_step
\* (minimize, lines 441-442) is the one fetch that assigns to them, and it
\* applies the step; cross_entropy and accuracy only read them
SessRun(fetches, p, step) ==
  IF "train_step" \in fetches THEN Append(p, step) ELSE p

\* what a checkpoint of an earlier training holds
PriorParams(tag) == <<Step(0, tag, Rate(0, 1))>>

TrainHP == [growth_rate |-> 12, depth |-> 13, total_blocks |-> 3,
            bc_mode |-> TRUE, reduction |-> [num |-> 1, den |-> 2],
            model_type |-> <<"DenseNet", "-", "BC">>, dataset |-> <<"ucf">>,
            should_save_logs |-> TRUE, should_save_model |-> TRUE]

Data(n, values) == [num_examples |-> n, values |-> values]

\* A constructed network, train_all_epochs not yet called; the checkpoint
\* directory is empty or holds the checkpoint of an earlier training.
InitTraining(hps, tps, providers, priors) ==
  /\ hp \in hps
  /\ tp \in tps
  /\ provider \in providers
  /\ \E prior \in priors :
       IF prior < 0
       THEN /\ files = {}
            /\ checkpoint_state = <<>>
            /\ last_save = [global_step |-> 0 - 1, params |-> <<>>]
       ELSE /\ files = {[path |-> CheckpointPath(prior), params |-> PriorParams(prior)]}
            /\ checkpoint_state = CheckpointPath(prior)
            /\ last_save = [global_step |-> prior, params |-> PriorParams(prior)]
  /\ layers_per_block = LayersPerBlockOf(hp)
  /\ ctor = "ready"
  /\ output = NoneTensor
  /\ block = hp.total_blocks
  /\ layer = 0
  /\ built = <<>>
  /\ logits = [rows |-> 1, features_total |-> 0, cols |-> provider.n_classes]
  /\ pc = "idle"
  /\ params = <<>>
  /\ start_epoch = 0
  /\ epoch = 0
  /\ learning_rate = Rate(0, 1)
  /\ i = 0
  /\ total_loss = <<>>
  /\ total_accuracy = <<>>
  /\ results = [train |-> "none", valid |-> "none"]
  /\ batches_step = 0
  /\ served = [train |-> <<>>, validation |-> <<>>]
  /\ trained = <<>>
  /\ validated = <<>>
  /\ resumed = FALSE

Thresholds == {1, 2, 3}

PriorTags == {0 - 1, 0, 1, 10}

InitTrain ==
  InitTraining(
    {[TrainHP EXCEPT !.should_save_model = b] : b \in BOOLEAN},
    [n_epochs : 0..MaxEpochs, initial_learning_rate : {Rate(1, 10)},
     batch_size : {2}, reduce_lr_epoch_1 : Thresholds,
     reduce_lr_epoch_2 : Thresholds, validation_set : BOOLEAN],
    {[data_shape |-> <<8, 32, 32, 3>>, n_classes |-> 2,
      train |-> Data(n, {<<2, 1>>}), validation |-> Data(n - 1, {<<3, 0>>})]
       : n \in {1, 3, 4}},
    PriorTags)

InitMetrics ==
  InitTraining(
    {TrainHP},
    [n_epochs : {1}, initial_learning_rate : {Rate(1, 10)},
     batch_size : 1..MaxBatch, reduce_lr_epoch_1 : {2},
     reduce_lr_epoch_2 : {3}, validation_set : BOOLEAN],
    {[data_shape |-> <<8, 32, 32, 3>>, n_classes |-> 2,
      train |-> Data(n, {<<2, 1>>, <<5, 0>>}),
      validation |-> Data(MaxExamples - n, {<<3, 0>>, <<4, 1>>})]
       : n \in 0..MaxExamples},
    {0 - 1})

\* train_all_epochs, lines 451-459, with load_model, lines 163-173
LoadModel ==
  /\ pc = "idle"
  /\ ctor = "ready"
  /\ IF checkpoint_state # <<>>
     THEN IF /\ \E f \in files : f.path = checkpoint_state
             /\ IsNumber(LastField(LastField(checkpoint_state, "/"), "-"))
          THEN /\ params' = RestoredParams(checkpoint_state)
               /\ start_epoch' = StartEpochOf(checkpoint_state)
               /\ pc' = "loop"
          ELSE /\ pc' = "error"
               /\ UNCHANGED <<params, start_epoch>>
     ELSE /\ start_epoch' = 1
          /\ pc' = "loop"
          /\ UNCHANGED params
  /\ epoch' = start_epoch'
  /\ UNCHANGED <<tp, last_save, files, checkpoint_state, learning_rate, i, total_loss,
                 total_accuracy, results, batches_step, served, trained,
                 validated, resumed>>
  /\ UNCHANGED buildVars

\* train_all_epochs, lines 462-476: the loop runs epoch; train_one_epoch is
\* entered (lines 502-504)
EpochBegin ==
  /\ pc = "loop"
  /\ InRange(epoch, tp.n_epochs)
  /\ learning_rate' = ScheduledRate(tp.initial_learning_rate, epoch,
                                    tp.reduce_lr_epoch_1, tp.reduce_lr_epoch_2)
  /\ pc' = "train"
  /\ i' = 0
  /\ total_loss' = <<>>
  /\ total_accuracy' = <<>>
  /\ served' = [train |-> <<>>, validation |-> <<>>]
  /\ trained' = Append(trained, epoch)
  /\ UNCHANGED <<tp, last_save, params, files, checkpoint_state, start_epoch, epoch, results,
                 batches_step, validated, resumed>>
  /\ UNCHANGED buildVars

\* train_one_epoch, lines 505-526: one batch, one optimizer step
TrainBatch ==
  /\ pc = "train"
  /\ i < NumBatches(provider.train, tp.batch_size)
  /\ \E v \in provider.train.values :
       /\ total_loss' = Append(total_loss, v[1])
       /\ total_accuracy' = Append(total_accuracy, v[2])
       /\ served' = [served EXCEPT !.train =
                       Append(@, [size |-> tp.batch_size, loss |-> v[1],
                                  accuracy |-> v[2], is_training |-> TRUE,
                                  fetches |-> TrainFetches])]
  /\ params' = SessRun(TrainFetches, params, Step(epoch, i, learning_rate))
  /\ batches_step' = IF hp.should_save_logs THEN batches_step + 1 ELSE batches_step
  /\ i' = i + 1
  /\ UNCHANGED <<tp, last_save, pc, files, checkpoint_state, start_epoch, epoch, learning_rate,
                 results, trained, validated, resumed>>
  /\ UNCHANGED buildVars

\* train_one_epoch, lines 527-529, and train_all_epochs, lines 477-483
TrainReturn ==
  /\ pc = "train"
  /\ i >= NumBatches(provider.train, tp.batch_size)
  /\ results' = [results EXCEPT !.train =
                   [loss |-> Mean(total_loss), accuracy |-> Mean(total_accuracy)]]
  /\ IF tp.validation_set
     THEN /\ pc' = "test"
          /\ i' = 0
          /\ total_loss' = <<>>
          /\ total_accuracy' = <<>>
          /\ validated' = Append(validated, epoch)
     ELSE /\ pc' = "epoch_end"
          /\ UNCHANGED <<i, total_loss, total_accuracy, validated>>
  /\ UNCHANGED <<tp, last_save, params, files, checkpoint_state, start_epoch, epoch,
                 learning_rate, batches_step, served, trained, resumed>>
  /\ UNCHANGED buildVars

\* test, lines 536-546: one batch, with the fetches of line 543
TestBatch ==
  /\ pc = "test"
  /\ i < NumBatches(provider.validation, tp.batch_size)
  /\ \E v \in provider.validation.values :
       /\ total_loss' = Append(total_loss, v[1])
       /\ total_accuracy' = Append(total_accuracy, v[2])
       /\ served' = [served EXCEPT !.validation =
                       Append(@, [size |-> tp.batch_size, loss |-> v[1],
                                  accuracy |-> v[2], is_training |-> FALSE,
                                  fetches |-> TestFetches])]
  /\ params' = SessRun(TestFetches, params, Step(epoch, i, learning_rate))
  /\ i' = i + 1
  /\ UNCHANGED <<tp, last_save, pc, files, checkpoint_state, start_epoch, epoch,
                 learning_rate, results, batches_step, trained, validated, resumed>>
  /\ UNCHANGED buildVars

\* test, lines 547-549, and train_all_epochs, lines 484-485
TestReturn ==
  /\ pc = "test"
  /\ i >= NumBatches(provider.validation, tp.batch_size)
  /\ results' = [results EXCEPT !.valid =
                   [loss |-> Mean(total_loss), accuracy |-> Mean(total_accuracy)]]
  /\ pc' = "epoch_end"
  /\ UNCHANGED <<tp, last_save, params, files, checkpoint_state, start_epoch, epoch,
                 learning_rate, i, total_loss, total_accuracy, batches_step, served,
                 trained, validated, resumed>>
  /\ UNCHANGED buildVars

\* train_all_epochs, lines 487-494, with save_model, line 154; then the next epoch
EpochEnd ==
  /\ pc = "epoch_end"
  /\ IF hp.should_save_model
     THEN /\ files' = SavedFiles(CheckpointPath(epoch))
          /\ checkpoint_state' = CheckpointPath(epoch)
          /\ last_save' = [global_step |-> epoch, params |-> params]
     ELSE UNCHANGED <<files, checkpoint_state, last_save>>
  /\ epoch' = epoch + 1
  /\ pc' = "loop"
  /\ UNCHANGED <<tp, params, start_epoch, learning_rate, i, total_loss,
                 total_accuracy, results, batches_step, served, trained, validated,
                 resumed>>
  /\ UNCHANGED buildVars

\* train_all_epochs, lines 462 and 496-498: the range is exhausted
LoopExit ==
  /\ pc = "loop"
  /\ ~InRange(epoch, tp.n_epochs)
  /\ pc' = "done"
  /\ UNCHANGED <<tp, last_save, params, files, checkpoint_state, start_epoch, epoch,
                 learning_rate, i, total_loss, total_accuracy, results, batches_step,
                 served, trained, validated, resumed>>
  /\ UNCHANGED buildVars

\* The process ends, by an interruption the loop does not handle or after
\* train_all_epochs has returned, and a new one constructs the same network:
\* the variables are initialized again; only the checkpoint directory is kept.
Restart ==
  /\ pc # "idle"
  /\ pc' = "idle"
  /\ params' = <<>>
  /\ start_epoch' = 0
  /\ epoch' = 0
  /\ learning_rate' = Rate(0, 1)
  /\ i' = 0
  /\ total_loss' = <<>>
  /\ total_accuracy' = <<>>
  /\ results' = [train |-> "none", valid |-> "none"]
  /\ batches_step' = 0
  /\ served' = [train |-> <<>>, validation |-> <<>>]
  /\ trained' = <<>>
  /\ validated' = <<>>
  /\ resumed' = TRUE
  /\ UNCHANGED <<tp, last_save, files, checkpoint_state>>
  /\ UNCHANGED buildVars

NextTrain ==
  \/ LoadModel
  \/ EpochBegin
  \/ TrainBatch
  \/ TrainReturn
  \/ TestBatch
  \/ TestReturn
  \/ EpochEnd
  \/ LoopExit
  \/ Restart

SpecTrain == InitTrain /\ [][NextTrain]_vars

SpecMetrics == InitMetrics /\ [][NextTrain]_vars

\* ---------------------------------------------------------------- claims
\* The configuration the constructor was given can build no layer: no block, or
\* no layer per block.
InvalidConfig == hp.total_blocks <= 0 \/ LayersPerBlockOf(hp) <= 0

GraphWorkDone ==
  ctor \in {"inputs_defined", "blocks", "graph_built", "session_initialized", "ready"}

\* C4: with total_blocks <= 0, or with layers_per_block zero or negative, the
\* constructor never runs _define_inputs, _build_graph or _initialize_session.
C4_InvalidConfigRejected == InvalidConfig => ~GraphWorkDone

\* C5: with valid hyperparameters the construction never fails, every layer built
\* has at least one channel and extents of at least one, and the logits have one
\* row per example and n_classes columns.
C5_ConstructionSucceeds ==
  ~InvalidConfig =>
    /\ ctor # "error"
    /\ \A k \in 1..Len(built) :
         /\ Channels(built[k].out) >= 1
         /\ \A a \in 1..3 : built[k].out.dims[a] >= 1
    /\ ctor \in {"graph_built", "session_initialized", "ready"} =>
         /\ logits.rows = 1
         /\ logits.cols = provider.n_classes

\* C6: after the i-th internal layer of a block the tensor has input_channels +
\* i * growth_rate channels, with or without bc_mode; the bottleneck is 4 *
\* growth_rate wide; the layer's input is the leading part of its output.
C6_ChannelGrowth ==
  \A k \in 1..Len(built) :
    built[k].op = "internal" =>
      LET r     == built[k]
          first == built[k - r.layer]
      IN  /\ first.op = "internal" /\ first.layer = 0 /\ first.block = r.block
          /\ Channels(r.in) = Channels(first.in) + r.layer * hp.growth_rate
          /\ Channels(r.out) = Channels(first.in) + (r.layer + 1) * hp.growth_rate
          /\ r.mid = (IF hp.bc_mode THEN 4 * hp.growth_rate ELSE 0)
          /\ SubSeq(r.out.chans, 1, Channels(r.in)) = r.in.chans
          /\ r.out.dims = r.in.dims
          /\ (ctor = "blocks" /\ block = r.block /\ k = Len(built)) =>
               /\ layer = r.layer + 1
               /\ output = r.out

C6_Witness ==
  /\ hp.bc_mode
  /\ ctor = "blocks"
  /\ layer >= 2
  /\ Len(built) > 0
  /\ built[Len(built)].op = "internal"
  /\ built[Len(built)].layer = 1

MaxPoolDepth == 3

\* q is n / d rounded up
IsCeilDiv(q, n, d) == q * d >= n /\ (q - 1) * d < n

\* q is the floor of c * reduction
IsFloorOfProduct(q, c, reduction) ==
  /\ q * reduction.den <= c * reduction.num
  /\ (q + 1) * reduction.den > c * reduction.num

TransitionLaw(in, out, pool_depth, reduction) ==
  /\ IsFloorOfProduct(Channels(out), Channels(in), reduction)
  /\ IsCeilDiv(out.dims[1], in.dims[1], pool_depth)
  /\ IsCeilDiv(out.dims[2], in.dims[2], 2)
  /\ IsCeilDiv(out.dims[3], in.dims[3], 2)

\* C7: a transition layer outputs floor(channels * reduction) channels, halves
\* height and width and divides the sequence extent by pool_depth, all rounded
\* up; a built graph of total_blocks >= 1 blocks has one transition, of pool
\* depth 2, after each block but the last.
C7_TransitionLaw ==
  /\ \A k \in 1..Len(built) :
       built[k].op = "transition" =>
         /\ TransitionLaw(built[k].in, built[k].out, 2, hp.reduction)
         /\ built[k].block < hp.total_blocks - 1
  /\ ctor = "blocks" =>
       \A pd \in 1..MaxPoolDepth :
         TransitionLaw(output, TransitionLayer(output, pd, hp.reduction), pd, hp.reduction)
  /\ (hp.total_blocks >= 1 /\ ctor \in {"graph_built", "session_initialized", "ready"}) =>
       \A b \in 0..(hp.total_blocks - 1) :
         Cardinality({k \in 1..Len(built) :
                        built[k].op = "transition" /\ built[k].block = b})
           = (IF b = hp.total_blocks - 1 THEN 0 ELSE 1)

C7_Witness ==
  /\ ctor = "ready"
  /\ hp.total_blocks = 3
  /\ \E k \in 1..Len(built) :
       /\ built[k].op = "transition"
       /\ built[k].in.dims = <<5, 1, 3>>
       /\ built[k].out.dims = <<3, 1, 2>>
       /\ (Channels(built[k].in) * hp.reduction.num) % hp.reduction.den # 0
       /\ Channels(built[k].out) >= 1

\* ------------------------------------------------------- claims, training
InEpoch == pc \in {"train", "test", "epoch_end"}

\* load_model has returned and no epoch has begun
JustLoaded == pc = "loop" /\ trained = <<>>

RangeSeq(a, b) == [k \in 1..(IF b >= a THEN b - a + 1 ELSE 0) |-> a + k - 1]

Tenth(r) == [num |-> r.num, den |-> r.den * 10]

Hundredth(r) == [num |-> r.num, den |-> r.den * 100]

\* C1 as stated: every training step of epoch e is fed initial_learning_rate
\* when e < reduce_lr_epoch_1, a tenth of it when reduce_lr_epoch_1 <= e <
\* reduce_lr_epoch_2, a hundredth of it when e >= reduce_lr_epoch_2.
C1_ScheduleAsStated ==
  \A k \in 1..Len(params) :
    params[k].epoch >= 1 =>
      LET e    == params[k].epoch
          init == tp.initial_learning_rate
      IN  /\ e < tp.reduce_lr_epoch_1 => params[k].lr = init
          /\ (e >= tp.reduce_lr_epoch_1 /\ e < tp.reduce_lr_epoch_2) =>
               params[k].lr = Tenth(init)
          /\ e >= tp.reduce_lr_epoch_2 => params[k].lr = Hundredth(init)

ExpectedRate(e) ==
  IF e >= tp.reduce_lr_epoch_2 THEN Hundredth(tp.initial_learning_rate)
  ELSE IF e >= tp.reduce_lr_epoch_1 THEN Tenth(tp.initial_learning_rate)
  ELSE tp.initial_learning_rate

\* C1, amended: every training step of epoch e is fed initial_learning_rate
\* when e is below both thresholds, a tenth of it when reduce_lr_epoch_1 <= e <
\* reduce_lr_epoch_2, a hundredth of it when e >= reduce_lr_epoch_2, whatever
\* the earlier epochs were fed; with 0.1, 50 and 75, epoch 10 gives 0.1, epoch
\* 50 gives 0.01 and epoch 75 gives 0.001.
C1_Schedule ==
  /\ \A k \in 1..Len(params) :
       params[k].epoch >= 1 => params[k].lr = ExpectedRate(params[k].epoch)
  /\ pc = "train" => learning_rate = ExpectedRate(epoch)
  /\ ScheduledRate([num |-> 1, den |-> 10], 10, 50, 75) = [num |-> 1, den |-> 10]
  /\ ScheduledRate([num |-> 1, den |-> 10], 50, 50, 75) = [num |-> 1, den |-> 100]
  /\ ScheduledRate([num |-> 1, den |-> 10], 75, 50, 75) = [num |-> 1, den |-> 1000]

C1_Witness ==
  /\ tp.reduce_lr_epoch_1 = 2
  /\ tp.reduce_lr_epoch_2 = 3
  /\ pc = "done"
  /\ \E a, b, c \in 1..Len(params) :
       /\ params[a].epoch = 1 /\ params[a].lr = [num |-> 1, den |-> 10]
       /\ params[b].epoch = 2 /\ params[b].lr = [num |-> 1, den |-> 100]
       /\ params[c].epoch = 3 /\ params[c].lr = [num |-> 1, den |-> 1000]

\* C2: the loop starts at 1 without a checkpoint and at the checkpoint's epoch
\* + 1 with one; the epochs trained, and those validated, are start_epoch,
\* start_epoch + 1, ... in order, each once, up to n_epochs; none when
\* start_epoch > n_epochs; no step is taken for an epoch below start_epoch.
C2_EpochRange ==
  /\ JustLoaded =>
       start_epoch = (IF last_save.global_step < 0 THEN 1 ELSE last_save.global_step + 1)
  /\ pc \in {"loop", "train", "test", "epoch_end", "done"} =>
       /\ trained = RangeSeq(start_epoch, IF InEpoch THEN epoch ELSE epoch - 1)
       /\ validated =
            (IF tp.validation_set
             THEN RangeSeq(start_epoch,
                           IF pc \in {"test", "epoch_end"} THEN epoch ELSE epoch - 1)
             ELSE <<>>)
       /\ InEpoch => (epoch >= start_epoch /\ epoch <= tp.n_epochs)
       /\ \A k \in 1..Len(params) :
            params[k].epoch >= start_epoch =>
              \E t \in 1..Len(trained) : trained[t] = params[k].epoch
  /\ pc = "done" =>
       /\ trained = RangeSeq(start_epoch, tp.n_epochs)
       /\ start_epoch > tp.n_epochs => trained = <<>> /\ validated = <<>>

C2_Witness ==
  /\ pc = "done"
  /\ start_epoch = 2
  /\ tp.n_epochs = 3
  /\ tp.validation_set
  /\ trained = <<2, 3>>
  /\ validated = <<2, 3>>
  /\ Len(params) > 1

\* C3: load_model after save_model(e) leaves every parameter at the value the
\* latest save held and returns e + 1; without a checkpoint it returns 1 and
\* leaves the parameters as initialized; it never fails on a path save_model
\* wrote.
C3_CheckpointRoundTrip ==
  /\ pc # "error"
  /\ JustLoaded =>
       IF last_save.global_step < 0
       THEN start_epoch = 1 /\ params = <<>>
       ELSE start_epoch = last_save.global_step + 1 /\ params = last_save.params

C3_Witness ==
  /\ JustLoaded
  /\ resumed
  /\ Cardinality(files) >= 2
  /\ last_save.global_step = 2
  /\ start_epoch = 3
  /\ params # <<>>
  /\ params = last_save.params

IsFloorDiv(q, n, d) == q * d <= n /\ (q + 1) * d > n

RECURSIVE SumOf(_, _)
SumOf(batches, field) ==
  IF batches = <<>> THEN 0 ELSE Head(batches)[field] + SumOf(Tail(batches), field)

\* the unweighted mean of a field over the batches handed out (of none: nan)
MeanOver(batches, field) ==
  IF Len(batches) = 0 THEN "nan"
  ELSE [sum |-> SumOf(batches, field), n |-> Len(batches)]

PassComplete(batches, data, returned) ==
  /\ IsFloorDiv(Len(batches), data.num_examples, tp.batch_size)
  /\ returned = [loss |-> MeanOver(batches, "loss"),
                 accuracy |-> MeanOver(batches, "accuracy")]

\* C8: train_one_epoch and test each ask for num_examples // batch_size batches,
\* all of batch_size examples, never more examples than the split has, and
\* return the unweighted means of the loss and of the accuracy of exactly those
\* batches (of no batch: nan).
C8_MetricAggregation ==
  /\ \A k \in 1..Len(served.train) : served.train[k].size = tp.batch_size
  /\ \A k \in 1..Len(served.validation) : served.validation[k].size = tp.batch_size
  /\ Len(served.train) * tp.batch_size <= provider.train.num_examples
  /\ Len(served.validation) * tp.batch_size <= provider.validation.num_examples
  /\ pc \in {"test", "epoch_end"} =>
       PassComplete(served.train, provider.train, results.train)
  /\ (pc = "epoch_end" /\ tp.validation_set) =>
       PassComplete(served.validation, provider.validation, results.valid)

C8_Witness ==
  /\ pc = "epoch_end"
  /\ tp.validation_set
  /\ Len(served.train) = 2
  /\ provider.train.num_examples % tp.batch_size # 0
  /\ served.train[1].loss # served.train[2].loss
  /\ results.train.loss = [sum |-> 7, n |-> 2]
  /\ Len(served.validation) = 0
  /\ results.valid.loss = "nan"

\* the steps of epoch e of a run that nothing interrupts
EpochSteps(e) ==
  [b \in 1..NumBatches(provider.train, tp.batch_size) |->
     Step(e, b - 1, ScheduledRate(tp.initial_learning_rate, e,
                                  tp.reduce_lr_epoch_1, tp.reduce_lr_epoch_2))]

RECURSIVE Uninterrupted(_)
Uninterrupted(n) == IF n <= 0 THEN <<>> ELSE Uninterrupted(n - 1) \o EpochSteps(n)

\* the checkpoint directory holds no checkpoint of an earlier training
FromScratch == \A f \in files : f.params = <<>> \/ f.params[1].epoch # 0

\* C9: with should_save_model, a training from scratch that is ended and resumed,
\* any number of times, has between its epochs and at its end the parameters of
\* the uninterrupted run: the same steps, of the same epochs, rates and batches.
C9_ResumeIdempotence ==
  (hp.should_save_model /\ FromScratch) =>
    /\ pc = "loop" => params = Uninterrupted(epoch - 1)
    /\ pc = "done" => params = Uninterrupted(tp.n_epochs)

C9_Witness ==
  /\ hp.should_save_model
  /\ FromScratch
  /\ resumed
  /\ pc = "done"
  /\ start_epoch = 2
  /\ tp.n_epochs = 3
  /\ Len(params) = 6

\* what load_model would return now
ResumeEpoch ==
  IF checkpoint_state = <<>> THEN 1
  ELSE IF IsNumber(LastField(LastField(checkpoint_state, "/"), "-"))
       THEN StartEpochOf(checkpoint_state)
       ELSE 0 - 1

ParamsBefore(e) ==
  LET Earlier(st) == st.epoch # e IN SelectSeq(params, Earlier)

\* C10: with should_save_model, an epoch that completes leaves a checkpoint
\* tagged with it that holds the parameters after its training (and validation)
\* pass; during epoch e the latest checkpoint is that of e - 1, or there is none
\* and e = 1, so that a resume starts at the epoch that was interrupted.
C10_LostWorkBounded ==
  hp.should_save_model =>
    /\ InEpoch =>
         /\ ResumeEpoch = epoch
         /\ \/ last_save.global_step = epoch - 1
            \/ last_save.global_step < 0 /\ checkpoint_state = <<>> /\ epoch = 1
         /\ checkpoint_state # <<>> =>
              RestoredParams(checkpoint_state) = ParamsBefore(epoch)
    /\ (pc = "loop" /\ trained # <<>>) =>
         /\ ResumeEpoch = epoch
         /\ last_save = [global_step |-> epoch - 1, params |-> params]
         /\ RestoredParams(checkpoint_state) = params
         /\ trained[Len(trained)] = epoch - 1
         /\ tp.validation_set => validated[Len(validated)] = epoch - 1

C10_Witness ==
  /\ hp.should_save_model
  /\ resumed
  /\ pc = "train"
  /\ i = 1
  /\ epoch = 3
  /\ start_epoch = 2
  /\ tp.validation_set
  /\ last_save.global_step = 2

\* the optimizer step of train_one_epoch, lines 511-518
OptimizerStep ==
  /\ pc = "train"
  /\ params' = Append(params, Step(epoch, i, learning_rate))

\* the restore of load_model, line 165, at the start of train_all_epochs
Restore ==
  /\ pc = "idle"
  /\ checkpoint_state # <<>>
  /\ params' = RestoredParams(checkpoint_state)

\* a step inside train_all_epochs: not the start of a new process
WithinTraining == pc' # "idle"

\* C11 as stated: within train_all_epochs the parameters change only through
\* the optimizer step executed in train_one_epoch.
C11_OnlyOptimizerStep ==
  [][(WithinTraining /\ params' # params) => OptimizerStep]_vars

\* C11: the evaluation pass leaves the parameters unchanged: each of its
\* batches is run with is_training = False and fetches only the loss and the
\* accuracy, never train_step; within train_all_epochs the parameters change
\* only through the optimizer step of train_one_epoch and through the restore
\* of the latest checkpoint that load_model does at its start.
C11_EvaluationFrame ==
  /\ [](\A k \in 1..Len(served.validation) :
          /\ served.validation[k].is_training = FALSE
          /\ served.validation[k].fetches = {"cross_entropy", "accuracy"})
  /\ [][(WithinTraining /\ pc = "test") => params' = params]_vars
  /\ [][(WithinTraining /\ params' # params) => (OptimizerStep \/ Restore)]_vars

C11_Witness ==
  /\ pc = "epoch_end"
  /\ tp.validation_set
  /\ resumed
  /\ start_epoch = 2
  /\ Len(served.train) = 2
  /\ Len(served.validation) = 1
  /\ Len(params) = 4

====
